---------------------------- MODULE Spec2Model ----------------------------
(***************************************************************************)
(* Model of dashboard.py: a Streamlit script that is re-executed from top  *)
(* to bottom, per browser session, on every widget interaction.            *)
(*                                                                         *)
(*   load_data (memoised by st.cache_data)  ->  date filter  ->  chart     *)
(*   payload (candlesticks, ma20, supp/rs bands, markers)  ->  chat tab     *)
(*   (st.session_state.history)                                            *)
(*                                                                         *)
(* Representation.                                                         *)
(*  - A timestamp is an integer  day * TicksPerDay + tick ; tick 0 is      *)
(*    midnight.  A calendar date (what st.date_input returns and what      *)
(*    strftime('%Y-%m-%d') prints) is the day number.                      *)
(*  - A cell of the Support / Resistance column is either the float NaN    *)
(*    pandas gives an empty cell, or text: a sequence of one-character     *)
(*    tokens "[", "]", ",", a numeral, or the identifier "x".  The texts   *)
(*    the model feeds are flat (no nested brackets).                       *)
(*  - Date cells of a file that has a Date column are parseable dates.     *)
(*  - DataFrame.sort_values uses kind='quicksort', which is not stable:    *)
(*    the order of rows with equal Date is any order.                      *)
(*  - st.file_uploader hands every script run a fresh handle on the        *)
(*    uploaded bytes (read position 0).                                    *)
(***************************************************************************)
EXTENDS Integers, Sequences, FiniteSets, TLC

VARIABLES uploaded_file, date_range, show_ma, show_bands, show_markers,
          question, session_state, cache, run

vars == <<uploaded_file, date_range, show_ma, show_bands, show_markers,
          question, session_state, cache, run>>

---------------------------------------------------------------------------
(* Bounds of the model *)

\* timestamps per calendar day (tick 0 = midnight)
TicksPerDay == 2

\* longest chat history explored
MaxHistory == 2

(* Program constants *)

\* rolling(window=20)
MAWindow == 20

Sessions == {"s1", "s2"}

None == [kind |-> "None"]

NaN == [kind |-> "nan", items |-> <<>>, err |-> ""]

---------------------------------------------------------------------------
(* Python values of a Support / Resistance cell *)

Numerals == {"1", "2", "3", "4", "5", "6", "7", "8", "9"}

NumeralValue == [n \in Numerals |->
                   CASE n = "1" -> 1 [] n = "2" -> 2 [] n = "3" -> 3
                     [] n = "4" -> 4 [] n = "5" -> 5 [] n = "6" -> 6
                     [] n = "7" -> 7 [] n = "8" -> 8 [] n = "9" -> 9]

Text(toks) == [kind |-> "str", text |-> toks]

PyList(xs) == [kind |-> "list", items |-> xs, err |-> ""]
PyTuple(xs) == [kind |-> "tuple", items |-> xs, err |-> ""]
PyInt(x) == [kind |-> "int", items |-> <<x>>, err |-> ""]
Raise(e) == [kind |-> "error", items |-> <<>>, err |-> e]

\* toks is  atom ("," atom)* [","]  : atoms at the odd places, commas at the even
IsItemList(toks) ==
    /\ Len(toks) >= 1
    /\ \A i \in 1..Len(toks) :
         IF i % 2 = 1 THEN toks[i] \in Numerals \cup {"x"} ELSE toks[i] = ","

Atoms(toks) == [k \in 1..((Len(toks) + 1) \div 2) |-> toks[2 * k - 1]]

\* a name among the atoms: not a literal (ValueError: malformed node)
HasName(toks) == \E i \in 1..Len(toks) : toks[i] = "x"

\* the numbers the numerals of an item list stand for
Elements(toks) == [k \in 1..Len(Atoms(toks)) |-> NumeralValue[Atoms(toks)[k]]]

\* ast.literal_eval on the text of a cell
literal_eval(toks) ==
    IF Len(toks) >= 2 /\ toks[1] = "[" /\ toks[Len(toks)] = "]"
    THEN IF Len(toks) = 2 THEN PyList(<<>>)
         ELSE IF ~IsItemList(SubSeq(toks, 2, Len(toks) - 1)) THEN Raise("SyntaxError")
         ELSE IF HasName(toks) THEN Raise("ValueError")
         ELSE PyList(Elements(SubSeq(toks, 2, Len(toks) - 1)))
    ELSE IF ~IsItemList(toks) THEN Raise("SyntaxError")
    ELSE IF HasName(toks) THEN Raise("ValueError")
    ELSE IF Len(toks) = 1 THEN PyInt(Elements(toks)[1])
    ELSE PyTuple(Elements(toks))

\* lambda x: ast.literal_eval(x) if isinstance(x, str) else x
ParseCell(cell) == IF cell.kind = "str" THEN literal_eval(cell.text) ELSE cell

SeqMin(xs) == CHOOSE m \in {xs[i] : i \in 1..Len(xs)} :
                 \A i \in 1..Len(xs) : m <= xs[i]
SeqMax(xs) == CHOOSE m \in {xs[i] : i \in 1..Len(xs)} :
                 \A i \in 1..Len(xs) : m >= xs[i]

\* why min(v) / max(v) raises, "" when it does not
MinMaxError(v) ==
    CASE v.kind \in {"list", "tuple"} ->
            IF v.items = <<>> THEN "ValueError" ELSE ""
      [] v.kind \in {"int", "nan"} -> "TypeError"
      [] OTHER -> v.err

---------------------------------------------------------------------------
(* load_data *)

\* a float column value: NaN, or the exact quotient num / den
Undefined == [defined |-> FALSE, num |-> 0, den |-> 1]
Ratio(n, d) == [defined |-> TRUE, num |-> n, den |-> d]

RemoveAt(s, i) == [k \in 1..(Len(s) - 1) |-> IF k < i THEN s[k] ELSE s[k + 1]]

\* mutant: the frame is left in file order
sort_values_missing(rows) == {rows}

\* every result sort_values("Date") can give: ascending by Date, rows of
\* equal Date in any order
RECURSIVE sort_values(_)
sort_values(rows) ==
    IF rows = <<>> THEN {<<>>}
    ELSE UNION { { <<rows[i]>> \o rest : rest \in sort_values(RemoveAt(rows, i)) } :
                 i \in { j \in 1..Len(rows) :
                           \A k \in 1..Len(rows) : rows[j].Date <= rows[k].Date } }

RECURSIVE SumClose(_, _, _)
SumClose(rows, lo, hi) ==
    IF lo > hi THEN 0 ELSE rows[hi].Close + SumClose(rows, lo, hi - 1)

\* df["Close"].pct_change() * 100
Daily_Return(rows, i) ==
    IF i = 1 THEN Undefined
    ELSE Ratio((rows[i].Close - rows[i - 1].Close) * 100, rows[i - 1].Close)

\* df["Close"].rolling(window=20).mean()
MA20(rows, i) ==
    IF i < MAWindow THEN Undefined
    ELSE Ratio(SumClose(rows, i - MAWindow + 1, i), MAWindow)

\* the first exception of the column-by-column passes of load_data over the
\* sorted rows, "" when there is none
FirstError(rows) ==
    LET S(i) == ParseCell(rows[i].Support)
        R(i) == ParseCell(rows[i].Resistance)
        idx == 1..Len(rows)
        first(bad, e(_)) == e(CHOOSE i \in bad : \A j \in bad : i <= j)
        badS == {i \in idx : S(i).kind = "error"}
        badR == {i \in idx : R(i).kind = "error"}
        badSm == {i \in idx : MinMaxError(S(i)) # ""}
        badRm == {i \in idx : MinMaxError(R(i)) # ""}
    IN  CASE badS # {} -> first(badS, LAMBDA i : S(i).err)
          [] badR # {} -> first(badR, LAMBDA i : R(i).err)
          [] badSm # {} -> first(badSm, LAMBDA i : MinMaxError(S(i)))
          [] badRm # {} -> first(badRm, LAMBDA i : MinMaxError(R(i)))
          [] OTHER -> ""

\* the derived columns of one row of the sorted frame
Derive(rows, i) ==
    LET r == rows[i]
        S == ParseCell(r.Support)
        R == ParseCell(r.Resistance)
    IN  [index |-> r.index, Date |-> r.Date, Open |-> r.Open, High |-> r.High, Low |-> r.Low,
         Close |-> r.Close, Direction |-> r.Direction,
         Support |-> S, Resistance |-> R,
         Support_min |-> SeqMin(S.items), Support_max |-> SeqMax(S.items),
         Resistance_min |-> SeqMin(R.items), Resistance_max |-> SeqMax(R.items),
         Daily_Return |-> Daily_Return(rows, i), MA20 |-> MA20(rows, i)]

Returned(df) == [ok |-> TRUE, df |-> df, err |-> ""]
Raised(e) == [ok |-> FALSE, df |-> <<>>, err |-> e]

\* mutant: rows with a cell that raises are dropped, the others kept
Prepare_dropping(rows) ==
    LET good == SelectSeq(rows, LAMBDA r : FirstError(<<r>>) = "")
    IN  Returned([i \in 1..Len(good) |-> Derive(good, i)])

\* the body of load_data after the sort
Prepare(rows) ==
    IF FirstError(rows) # "" THEN Raised(FirstError(rows))
    ELSE Returned([i \in 1..Len(rows) |-> Derive(rows, i)])

\* pd.read_csv: the rows of the file under a RangeIndex 0, 1, ...
read_csv(file) ==
    [i \in 1..Len(file.rows) |-> [index |-> i - 1] @@ file.rows[i]]

\* every outcome of one uncached call load_data(file); parse_dates=["Date"]
\* raises ValueError when the file has no Date column
load_data(file) ==
    IF ~file.hasDate THEN {Raised("ValueError")}
    ELSE {Prepare(rows) : rows \in sort_values(read_csv(file))}

---------------------------------------------------------------------------
(* Date filter and chart payload *)

\* pd.to_datetime(d) of a calendar date: midnight of that day
to_datetime(d) == d * TicksPerDay

\* Date.strftime('%Y-%m-%d'): the calendar date of a timestamp
strftime(ts) == ts \div TicksPerDay

\* mutant: the two ends of the range are put in order first
DateFilter_ordered(df, range) ==
    IF Len(range) = 2
    THEN SelectSeq(df, LAMBDA r :
            /\ r.Date >= to_datetime(IF range[1] < range[2] THEN range[1] ELSE range[2])
            /\ r.Date <= to_datetime(IF range[1] < range[2] THEN range[2] ELSE range[1]))
    ELSE df

\* if len(date_range) == 2: df = df[(df.Date >= start) & (df.Date <= end)]
DateFilter(df, range) ==
    IF Len(range) = 2
    THEN SelectSeq(df, LAMBDA r : /\ r.Date >= to_datetime(range[1])
                                  /\ r.Date <= to_datetime(range[2]))
    ELSE df

NoSeries == [made |-> FALSE, data |-> <<>>]
Series(data) == [made |-> TRUE, data |-> data]

\* mutant: the builder sorts, newest first
candlesticks_resorted(df) ==
    [i \in 1..Len(df) |->
       LET r == df[Len(df) + 1 - i]
       IN  [time |-> strftime(r.Date), open |-> r.Open, high |-> r.High,
            low |-> r.Low, close |-> r.Close]]

candlesticks(df) ==
    [i \in 1..Len(df) |-> [time |-> strftime(df[i].Date), open |-> df[i].Open,
                           high |-> df[i].High, low |-> df[i].Low,
                           close |-> df[i].Close]]

\* mutant: fillna(0) in place of dropna()
ma20_zero_filled(df) ==
    [i \in 1..Len(df) |->
       [time |-> strftime(df[i].Date),
        value |-> IF df[i].MA20.defined THEN df[i].MA20 ELSE Ratio(0, 1)]]

\* [["time","value"]].dropna().to_dict(orient='records')
ma20(df) ==
    LET pts == [i \in 1..Len(df) |-> [time |-> strftime(df[i].Date), value |-> df[i].MA20]]
    IN  SelectSeq(pts, LAMBDA p : p.value.defined)

supp(df) ==
    [i \in 1..Len(df) |-> [time |-> strftime(df[i].Date),
                           low |-> df[i].Support_min, high |-> df[i].Support_max]]

rs(df) ==
    [i \in 1..Len(df) |-> [time |-> strftime(df[i].Date),
                           low |-> df[i].Resistance_min, high |-> df[i].Resistance_max]]

\* mutant: a direction other than LONG is drawn as SHORT
Marker_two_way(row) ==
    [time |-> strftime(row.Date),
     position |-> IF row.Direction = "LONG" THEN "belowBar" ELSE "aboveBar",
     color |-> IF row.Direction = "LONG" THEN "green" ELSE "red",
     shape |-> IF row.Direction = "LONG" THEN "arrowUp" ELSE "arrowDown"]

Marker(row) ==
    [time |-> strftime(row.Date),
     position |-> IF row.Direction = "LONG" THEN "belowBar"
                  ELSE IF row.Direction = "SHORT" THEN "aboveBar" ELSE "inBar",
     color |-> IF row.Direction = "LONG" THEN "green"
               ELSE IF row.Direction = "SHORT" THEN "red" ELSE "yellow",
     shape |-> IF row.Direction = "LONG" THEN "arrowUp"
               ELSE IF row.Direction = "SHORT" THEN "arrowDown" ELSE "circle"]

markers(df) == [i \in 1..Len(df) |-> Marker(df[i])]

\* the chart tab: what is handed to the chart for the frame df
ChartPayload(df, ma, bands, mk) ==
    [candlesticks |-> Series(candlesticks(df)),
     ma20 |-> IF ma THEN Series(ma20(df)) ELSE NoSeries,
     supp |-> IF bands THEN Series(supp(df)) ELSE NoSeries,
     rs |-> IF bands THEN Series(rs(df)) ELSE NoSeries,
     markers |-> IF mk THEN Series(markers(df)) ELSE NoSeries]

---------------------------------------------------------------------------
(* Inputs: uploaded files, date ranges, questions *)

Row(ts, o, c, dir, S, R) ==
    [Date |-> ts, Open |-> o, High |-> (IF o > c THEN o ELSE c) + 1,
     Low |-> (IF o > c THEN c ELSE o) - 1, Close |-> c, Direction |-> dir,
     Support |-> S, Resistance |-> R]

File(name, hasDate, rows) ==
    [kind |-> "file", name |-> name, hasDate |-> hasDate, rows |-> rows]

Midnight(day) == day * TicksPerDay
Intraday(day) == day * TicksPerDay + (TicksPerDay - 1)

GoodS == Text(<<"[", "1", ",", "2", "]">>)
GoodR == Text(<<"[", "4", ",", "3", "]">>)

\* rows whose cells load_data accepts
GoodRows ==
    { Row(Midnight(1), 10, 12, "LONG", GoodS, GoodR),
      Row(Midnight(2), 12, 11, "SHORT", GoodS, Text(<<"[", "5", ",", "]">>)),
      Row(Intraday(2), 11, 11, "HOLD", Text(<<"[", "2", "]">>), GoodR),
      Row(Midnight(1), 20, 21, "SHORT", GoodS, GoodR),
      Row(Midnight(3), 13, 14, "", GoodS, GoodR) }

\* "1,2" : the brackets are missing
TupleRow == Row(Midnight(2), 10, 12, "LONG", Text(<<"1", ",", "2">>), GoodR)

\* rows with a cell on which literal_eval, min or max raises: "[1,2", "x",
\* "[]", "7", an empty cell (NaN), a cell of blanks (text without a token)
BadRows ==
    { Row(Midnight(1), 10, 12, "LONG", Text(<<"[", "1", ",", "2">>), GoodR),
      Row(Midnight(2), 10, 12, "LONG", GoodS, Text(<<"x">>)),
      Row(Midnight(2), 10, 12, "SHORT", Text(<<"[", "]">>), GoodR),
      Row(Midnight(1), 10, 12, "SHORT", GoodS, Text(<<"7">>)),
      Row(Midnight(3), 10, 12, "LONG", NaN, GoodR),
      Row(Midnight(3), 10, 12, "LONG", Text(<<>>), GoodR) }


RowPool == GoodRows \cup {TupleRow} \cup BadRows

\* MAWindow + 1 trading days, one row a day, given in descending date order
LongFile ==
    File("long.csv", TRUE,
         [i \in 1..(MAWindow + 1) |->
            Row(Midnight(MAWindow + 2 - i), 30 + i, 31 + (i % 3),
                IF i % 2 = 0 THEN "LONG" ELSE "SHORT", GoodS, GoodR)])

ShortFiles ==
    { File("tsla.csv", TRUE, rows) :
        rows \in {<<>>} \cup {<<r>> : r \in RowPool}
                 \cup {<<r1, r2>> : r1 \in RowPool, r2 \in GoodRows \cup {TupleRow}} }

ThreeRowFile ==
    File("tsla.csv", TRUE,
         << Row(Midnight(2), 12, 11, "SHORT", GoodS, GoodR),
            Row(Midnight(1), 10, 12, "LONG", GoodS, GoodR),
            Row(Midnight(2), 30, 31, "HOLD", GoodS, GoodR) >>)

NoDateFile ==
    File("nodate.csv", FALSE, <<Row(Midnight(1), 10, 12, "LONG", GoodS, GoodR)>>)

\* the files of the single-user runs
Files == ShortFiles \cup {ThreeRowFile, NoDateFile, LongFile}

\* the files of the one-user session: two files of one name, one that fails
AppFiles ==
    { ThreeRowFile,
      File("tsla.csv", TRUE, <<Row(Intraday(2), 11, 11, "HOLD", GoodS, GoodR)>>),
      File("bad.csv", TRUE, <<Row(Midnight(2), 10, 12, "LONG", GoodS, Text(<<"x">>))>>) }

RangeDays == {1, 2, MAWindow}

\* the values of st.date_input("Date range", []): (), (d,), (start, end)
Ranges ==
    {<<>>} \cup {<<d>> : d \in RangeDays}
           \cup {<<a, b>> : a \in RangeDays, b \in RangeDays}

AppRanges == {<<>>, <<2>>, <<1, 2>>, <<2, 2>>}

\* the files and ranges of the two-user runs
UserFiles ==
    { File("tsla.csv", TRUE, <<Row(Midnight(2), 12, 11, "SHORT", GoodS, GoodR)>>),
      File("bad.csv", TRUE, <<Row(Midnight(2), 10, 12, "LONG", GoodS, Text(<<"x">>))>>) }

UserRanges == {<<>>, <<1, 1>>}

Questions == {"", "q"}

Answer == "[Gemini API response goes here]"

---------------------------------------------------------------------------
(* One run of the script for a session *)

\* mutant: the memo is keyed by the file name alone
CacheKey_by_name(file) == <<file.name>>

\* st.cache_data hashes an uploaded file by its name and its bytes
CacheKey(file) == <<file.name, file.hasDate, file.rows>>

\* load_data under @st.cache_data: the memoised frame, else a fresh call
CachedLoad(c, file) ==
    IF CacheKey(file) \in DOMAIN c
    THEN {Returned(c[CacheKey(file)])}
    ELSE load_data(file)

\* only a call that returns is memoised
CacheAfter(c, file, o) ==
    IF o.ok THEN (CacheKey(file) :> o.df) @@ c ELSE c

NoPayload == ChartPayload(<<>>, FALSE, FALSE, FALSE)

NoFileRun == [status |-> "nofile", df |-> <<>>, err |-> "", chat |-> <<>>,
              payload |-> [NoPayload EXCEPT !.candlesticks = NoSeries]]

ErrorRun(e) == [NoFileRun EXCEPT !.status = "error", !.err = e]

\* chat: the (Q, A) pairs the chat tab writes out, for q, a in history
OkRun(df, ma, bands, mk, history) ==
    [status |-> "ok", df |-> df, err |-> "", chat |-> history,
     payload |-> ChartPayload(df, ma, bands, mk)]

\* mutant: the history is reset by every run
HistoryInit_always(ss) == <<>>

\* if "history" not in st.session_state: st.session_state.history = []
HistoryInit(ss) == IF ss.has_history THEN ss.history ELSE <<>>

\* the chat tab: the Send button appends (question, answer)
ChatTab(ss, q, send) ==
    [has_history |-> TRUE,
     history |-> IF send THEN Append(HistoryInit(ss), <<q, Answer>>)
                 ELSE HistoryInit(ss)]

\* what the run renders when load_data ended in o
RunOf(o, range, ma, bands, mk, ss) ==
    IF o.ok THEN OkRun(DateFilter(o.df, range), ma, bands, mk, ss.history)
    ELSE ErrorRun(o.err)

\* The script from top to bottom for session s, with the widget values of
\* this run.  An exception of load_data ends the run; a run that does not
\* reach the chat tab leaves the session state alone and drops the value of
\* the text input it did not render.
Script(s, file, range, ma, bands, mk, q, send) ==
    /\ uploaded_file' = [uploaded_file EXCEPT ![s] = file]
    /\ date_range' = [date_range EXCEPT ![s] = range]
    /\ show_ma' = [show_ma EXCEPT ![s] = ma]
    /\ show_bands' = [show_bands EXCEPT ![s] = bands]
    /\ show_markers' = [show_markers EXCEPT ![s] = mk]
    /\ IF file = None
       THEN /\ run' = [run EXCEPT ![s] = NoFileRun]
            /\ question' = [question EXCEPT ![s] = ""]
            /\ UNCHANGED <<cache, session_state>>
       ELSE \E o \in CachedLoad(cache, file) :
              /\ cache' = CacheAfter(cache, file, o)
              /\ run' = [run EXCEPT ![s] =
                           RunOf(o, range, ma, bands, mk,
                                 ChatTab(session_state[s], q, send))]
              /\ question' = [question EXCEPT ![s] = IF o.ok THEN q ELSE ""]
              /\ session_state' =
                   [session_state EXCEPT ![s] =
                      IF o.ok THEN ChatTab(session_state[s], q, send)
                      ELSE session_state[s]]

Rerun(s, file, range, ma, bands, mk) ==
    Script(s, file, range, ma, bands, mk, question[s], FALSE)

---------------------------------------------------------------------------
(* User interactions *)

Upload(s, f) ==
    /\ uploaded_file[s] # f
    /\ Rerun(s, f, date_range[s], show_ma[s], show_bands[s], show_markers[s])

ClearUpload(s) ==
    /\ uploaded_file[s] # None
    /\ Rerun(s, None, date_range[s], show_ma[s], show_bands[s], show_markers[s])

SetDateRange(s, r) ==
    /\ date_range[s] # r
    /\ Rerun(s, uploaded_file[s], r, show_ma[s], show_bands[s], show_markers[s])

ToggleMA(s) ==
    Rerun(s, uploaded_file[s], date_range[s], ~show_ma[s], show_bands[s], show_markers[s])

ToggleBands(s) ==
    Rerun(s, uploaded_file[s], date_range[s], show_ma[s], ~show_bands[s], show_markers[s])

ToggleMarkers(s) ==
    Rerun(s, uploaded_file[s], date_range[s], show_ma[s], show_bands[s], ~show_markers[s])

\* the text input exists only on a page whose last run reached the chat tab
TypeQuestion(s, q) ==
    /\ run[s].status = "ok"
    /\ question[s] # q
    /\ Script(s, uploaded_file[s], date_range[s], show_ma[s], show_bands[s],
              show_markers[s], q, FALSE)

Send(s) ==
    /\ run[s].status = "ok"
    /\ Len(session_state[s].history) < MaxHistory
    /\ Script(s, uploaded_file[s], date_range[s], show_ma[s], show_bands[s],
              show_markers[s], question[s], TRUE)

---------------------------------------------------------------------------
(* Specifications *)

NoCache == [k \in {} |-> <<>>]

NoSessionState == [has_history |-> FALSE, history |-> <<>>]

\* every session has run the script once, with no file uploaded
Init ==
    /\ uploaded_file = [s \in Sessions |-> None]
    /\ date_range = [s \in Sessions |-> <<>>]
    /\ show_ma = [s \in Sessions |-> TRUE]
    /\ show_bands = [s \in Sessions |-> TRUE]
    /\ show_markers = [s \in Sessions |-> TRUE]
    /\ question = [s \in Sessions |-> ""]
    /\ session_state = [s \in Sessions |-> NoSessionState]
    /\ cache = NoCache
    /\ run = [s \in Sessions |-> NoFileRun]

\* one user, every interaction
Next ==
    \/ \E f \in AppFiles : Upload("s1", f)
    \/ ClearUpload("s1")
    \/ \E r \in AppRanges : SetDateRange("s1", r)
    \/ ToggleMA("s1")
    \/ ToggleBands("s1")
    \/ ToggleMarkers("s1")
    \/ \E q \in Questions : TypeQuestion("s1", q)
    \/ Send("s1")

Spec == Init /\ [][Next]_vars

\* two users, each in a session of their own, on one server (one cache)
NextUsers ==
    \/ \E s \in Sessions, f \in UserFiles : Upload(s, f)
    \/ \E s \in Sessions, q \in Questions : TypeQuestion(s, q)
    \/ \E s \in Sessions : Send(s)
    \/ ClearUpload("s1")
    \/ \E r \in UserRanges : SetDateRange("s1", r)
    \/ ToggleMA("s1")
    \/ ToggleBands("s1")
    \/ ToggleMarkers("s1")

SpecUsers == Init /\ [][NextUsers]_vars

\* The pipeline on every file: one user uploads one of Files, once, and
\* edits the date range and the toggles before and after.
NextPipeline ==
    \/ \E f \in Files : uploaded_file["s1"] = None /\ Upload("s1", f)
    \/ \E r \in Ranges : SetDateRange("s1", r)
    \/ ToggleMA("s1")
    \/ ToggleBands("s1")
    \/ ToggleMarkers("s1")

SpecPipeline == Init /\ [][NextPipeline]_vars

---------------------------------------------------------------------------
(* Properties of the chart payload (SpecPipeline) *)

\* the frame load_data returned for the file session s has uploaded
Loaded(s) == cache[CacheKey(uploaded_file[s])]

HasLoaded(s) ==
    /\ uploaded_file[s] # None
    /\ CacheKey(uploaded_file[s]) \in DOMAIN cache

\* the appearance table of the markers
Appearance(direction) ==
    CASE direction = "LONG" -> <<"belowBar", "green", "arrowUp">>
      [] direction = "SHORT" -> <<"aboveBar", "red", "arrowDown">>
      [] OTHER -> <<"inBar", "yellow", "circle">>

\* C1: with show_markers the marker series has one marker per row of the
\* filtered table, in table order, whose position, color and shape are those
\* the table gives for the row's direction; without show_markers there is no
\* marker series.
C1_Markers ==
    \A s \in Sessions :
        run[s].status = "ok" =>
            LET m == run[s].payload.markers
                df == run[s].df
            IN  IF show_markers[s]
                THEN /\ m.made
                     /\ Len(m.data) = Len(df)
                     /\ \A i \in 1..Len(df) :
                          /\ m.data[i].time = df[i].Date \div TicksPerDay
                          /\ <<m.data[i].position, m.data[i].color, m.data[i].shape>>
                               = Appearance(df[i].Direction)
                ELSE m = NoSeries

C1_Witness ==
    /\ run["s1"].status = "ok"
    /\ show_markers["s1"]
    /\ Len(date_range["s1"]) = 2
    /\ {"LONG", "SHORT", "HOLD"} \subseteq
         {run["s1"].df[i].Direction : i \in 1..Len(run["s1"].df)}

\* C7: whatever the three toggles, the candle series is produced and has one
\* record {time, open, high, low, close} per row of the table, in the order
\* of the table, which is ascending by date; an empty table gives an empty
\* series.
C7_Candles ==
    \A s \in Sessions :
        run[s].status = "ok" =>
            LET c == run[s].payload.candlesticks
                df == run[s].df
            IN  /\ c.made
                /\ Len(c.data) = Len(df)
                /\ \A i \in 1..Len(df) :
                     c.data[i] = [time |-> df[i].Date \div TicksPerDay,
                                  open |-> df[i].Open, high |-> df[i].High,
                                  low |-> df[i].Low, close |-> df[i].Close]
                /\ \A i \in 1..(Len(df) - 1) : c.data[i].time <= c.data[i + 1].time

C7_Witness ==
    /\ run["s1"].status = "ok"
    /\ ~show_ma["s1"] /\ ~show_bands["s1"] /\ ~show_markers["s1"]
    /\ Len(run["s1"].payload.candlesticks.data) >= 2
    /\ run["s1"].payload.candlesticks.data[1].time
         < run["s1"].payload.candlesticks.data[2].time

\* the rows of df with a defined MA20, and the k-th of them
DefinedMA(df) == {i \in 1..Len(df) : df[i].MA20.defined}
KthDefinedMA(df, k) ==
    CHOOSE j \in DefinedMA(df) : Cardinality({i \in DefinedMA(df) : i <= j}) = k

\* C8: the moving-average series is produced exactly when show_ma is set, and
\* then has one {time, value} point for each row with a defined MA20, in
\* table order, and no point for a row whose MA20 is undefined.
C8_MovingAverage ==
    \A s \in Sessions :
        run[s].status = "ok" =>
            LET m == run[s].payload.ma20
                df == run[s].df
            IN  /\ m.made <=> show_ma[s]
                /\ m.made =>
                     /\ Len(m.data) = Cardinality(DefinedMA(df))
                     /\ \A k \in 1..Len(m.data) :
                          /\ m.data[k].value.defined
                          /\ m.data[k].time = df[KthDefinedMA(df, k)].Date \div TicksPerDay
                          /\ m.data[k].value = df[KthDefinedMA(df, k)].MA20

C8_Witness ==
    /\ run["s1"].status = "ok"
    /\ show_ma["s1"]
    /\ Len(date_range["s1"]) = 2
    /\ Len(run["s1"].payload.ma20.data) >= 1
    /\ Len(run["s1"].payload.ma20.data) < Len(run["s1"].df)

---------------------------------------------------------------------------
(* Properties of the date filter (SpecPipeline) *)

\* C2: the filter keeps exactly the rows whose calendar date d has
\* start <= d <= end, whatever their time of day, in their order, and gives
\* an empty table when there is none.
C2_FilterByCalendarDate ==
    \A s \in Sessions :
        (HasLoaded(s) /\ Len(date_range[s]) = 2) =>
            /\ run[s].status = "ok"
            /\ run[s].df =
                 SelectSeq(Loaded(s), LAMBDA r :
                    /\ date_range[s][1] <= r.Date \div TicksPerDay
                    /\ r.Date \div TicksPerDay <= date_range[s][2])

Reversed(s) == Len(date_range[s]) = 2 /\ date_range[s][1] > date_range[s][2]

---------------------------------------------------------------------------
(* Properties of load_data (SpecPipeline) *)

IsNumberList(toks) ==
    /\ Len(toks) >= 1
    /\ \A i \in 1..Len(toks) :
         IF i % 2 = 1 THEN toks[i] \in Numerals ELSE toks[i] = ","

\* the text is "[" numbers separated by commas "]"
IsBracketedNumberList(toks) ==
    /\ Len(toks) >= 2
    /\ toks[1] = "[" /\ toks[Len(toks)] = "]"
    /\ Len(toks) > 2 => IsNumberList(SubSeq(toks, 2, Len(toks) - 1))

Cells(file) ==
    {file.rows[i].Support : i \in 1..Len(file.rows)}
        \cup {file.rows[i].Resistance : i \in 1..Len(file.rows)}

IsTaken(cell) ==
    /\ cell.kind = "str"
    /\ \/ IsBracketedNumberList(cell.text) /\ Len(cell.text) > 2
       \/ IsNumberList(cell.text) /\ Len(cell.text) >= 2

RowIsTaken(r) == IsTaken(r.Support) /\ IsTaken(r.Resistance)

TakenRows(file) == {i \in 1..Len(file.rows) : RowIsTaken(file.rows[i])}

\* C5 as stated: with a Date column, the load succeeds and the table has
\* exactly the rows without a malformed cell.
C5_BadRowsAreDropped ==
    \A s \in Sessions :
        (uploaded_file[s] # None /\ uploaded_file[s].hasDate) =>
            /\ HasLoaded(s)
            /\ {Loaded(s)[i].index + 1 : i \in 1..Len(Loaded(s))}
                 = TakenRows(uploaded_file[s])

\* C5: one cell that load_data does not take ends the whole load in an
\* error, as a missing Date column does, and nothing is memoised; no row is
\* ever dropped: a load that succeeds returns every row of the file once.
C5_BadRowAbortsLoad ==
    \A s \in Sessions :
        uploaded_file[s] # None =>
            LET f == uploaded_file[s]
            IN  IF f.hasDate /\ TakenRows(f) = 1..Len(f.rows)
                THEN /\ HasLoaded(s)
                     /\ run[s].status = "ok"
                     /\ Len(Loaded(s)) = Len(f.rows)
                     /\ {Loaded(s)[i].index + 1 : i \in 1..Len(Loaded(s))}
                          = 1..Len(f.rows)
                ELSE /\ ~HasLoaded(s)
                     /\ run[s].status = "error"
                     /\ run[s].df = <<>>

C5_Witness ==
    /\ uploaded_file["s1"] # None
    /\ uploaded_file["s1"].hasDate
    /\ TakenRows(uploaded_file["s1"]) # {}
    /\ TakenRows(uploaded_file["s1"]) # 1..Len(uploaded_file["s1"].rows)
    /\ run["s1"].status = "error"

DistinctDates(rows) ==
    \A i, j \in 1..Len(rows) : i # j => rows[i].Date # rows[j].Date

\* C6 as stated: the rows of the loaded table are in ascending date order
\* and no two of them have the same date.
C6_StrictlyAscending ==
    \A s \in Sessions :
        HasLoaded(s) =>
            \A i \in 1..(Len(Loaded(s)) - 1) :
                Loaded(s)[i].Date < Loaded(s)[i + 1].Date

\* C6: the rows of the loaded table are the rows of the file, each once, in
\* ascending date order; rows with a repeated date are all kept.  When the
\* dates of the file are distinct, so are those of the table, and sorting it
\* again leaves it unchanged.
C6_Ascending ==
    \A s \in Sessions :
        HasLoaded(s) =>
            LET df == Loaded(s)
                f == uploaded_file[s]
            IN  /\ \A i \in 1..(Len(df) - 1) : df[i].Date <= df[i + 1].Date
                /\ Len(df) = Len(f.rows)
                /\ {df[i].index + 1 : i \in 1..Len(df)} = 1..Len(f.rows)
                /\ \A i \in 1..Len(df) : df[i].Date = f.rows[df[i].index + 1].Date
                /\ DistinctDates(f.rows) =>
                     /\ \A i \in 1..(Len(df) - 1) : df[i].Date < df[i + 1].Date
                     /\ sort_values(df) = {df}

C6_Witness ==
    /\ HasLoaded("s1")
    /\ Len(Loaded("s1")) = 3
    /\ ~DistinctDates(uploaded_file["s1"].rows)
    /\ Loaded("s1")[1].index # 0

---------------------------------------------------------------------------
(* Properties of a session (Spec, SpecUsers) *)

\* C9: after any interactions the table behind the chart and the report is
\* the date filter, at the current range, of what load_data gives for the
\* file now uploaded, and the payload is built from it with the current
\* toggles; the memoised frame is the unfiltered one.
C9_ViewOfCurrentInputs ==
    \A s \in Sessions :
        IF uploaded_file[s] = None THEN run[s].status = "nofile"
        ELSE \E o \in load_data(uploaded_file[s]) :
               IF o.ok
               THEN /\ run[s].status = "ok"
                    /\ run[s].df = DateFilter(o.df, date_range[s])
                    /\ run[s].payload =
                         ChartPayload(run[s].df, show_ma[s], show_bands[s],
                                      show_markers[s])
                    /\ HasLoaded(s) /\ Loaded(s) = o.df
               ELSE /\ run[s].status = "error"
                    /\ ~HasLoaded(s)

\* a second file of the same name is shown, filtered, after the first was
\* memoised
C9_Witness ==
    /\ HasLoaded("s1")
    /\ Cardinality(DOMAIN cache) = 2
    /\ \A k \in DOMAIN cache : k[1] = uploaded_file["s1"].name
    /\ Len(run["s1"].df) < Len(Loaded("s1"))
    /\ ~show_bands["s1"]

History(s) == IF session_state[s].has_history THEN session_state[s].history ELSE <<>>

OfSession(s) ==
    <<uploaded_file[s], date_range[s], show_ma[s], show_bands[s], show_markers[s],
      question[s], session_state[s], run[s]>>

\* C10: a Send appends the one pair (question, answer) at the end of the
\* session's history, any other interaction leaves the history as it is, and
\* an interaction of one session changes nothing of another session; the
\* chat tab of a session shows that session's history.
C10_HistoryAppendOnly ==
    /\ [](\A s \in Sessions : run[s].status = "ok" => run[s].chat = History(s))
    /\ [][\A s \in Sessions :
            /\ Send(s) => History(s)' = Append(History(s), <<question[s], Answer>>)
            /\ ~Send(s) => History(s)' = History(s)
            /\ OfSession(s)' # OfSession(s) =>
                 \A t \in Sessions \ {s} : OfSession(t)' = OfSession(t)]_vars

C10_Witness ==
    /\ Len(History("s1")) = 2
    /\ Len(History("s2")) = 1
    /\ History("s1")[1] # History("s2")[1]
    /\ run["s1"].status = "error"

===========================================================================
